---- MODULE Spec2Model ----
(***************************************************************************)
(* Model of regia's request context (parser.go): the handler chain         *)
(* executor (start / Next / Abort / recover), the per-request fields and   *)
(* their reset, and the parser dispatch used by Context.Data.              *)
(***************************************************************************)
EXTENDS Integers, Sequences, FiniteSets, TLC

(* ---------------------------- bounds ----------------------------------- *)
\* longest handler chain the router hands to init
MaxChain == 3
\* most Next() calls one handler invocation makes
MaxNextCalls == 2
\* most parsers in a dispatch list
MaxParsers == 2

\* most uploads one request saves
MaxSaves == 2
\* how many FileStorage implementations there are
MaxStores == 2
\* most pieces a Content-Type header is made of
MaxPieces == 2
\* most Contexts the engine's pool ever makes
MaxCtx == 2
\* most maps syncMapPool ever makes
MaxMaps == 2

(* --------------------------- constants --------------------------------- *)
\* index and abortIndex are uint8
Uint8Mod == 256

VARIABLES
    \* Context fields
    index, abortIndex, group, Parsers, queryCache, formCache, contextValue,
    escape, abort, Validator, Request,
    \* process-wide objects
    syncMapPool, engineParsers, engineValidator,
    \* control: where the request is, the call stack, the value being unwound
    status, stack, panicking,
    \* record of the current request
    invoked, nextCalls, abortCalls, abortBy, abortDepth, afterAbort,
    abortRecovered, faulted, topVal, exitInvoked, raised, reused,
    \* record of the last Data call
    calls, dataRet,
    \* the parsers AddParser was given in this request, in order
    added,
    \* concurrent requests sharing the engine's parser slice: the backing
    \* arrays, the engine's slice, each request's c.Parsers, the list each
    \* request built by its own calls, what its last Data returned
    heap, engineSlice, reqSlice, expect, shareRet,
    \* Query and Form in one request: whether c.formCache and Request.PostForm
    \* are the same map, how often each cache was computed, what the first and
    \* the last call returned, whether a call returned while the request held
    \* another value, whether the shared map was changed in place
    aliased, computed, first, returned, stale, touched,
    \* several Contexts and the two pools: the Contexts in the engine's pool,
    \* where each Context is in its cycle, its escape flag, its contextValue
    \* (0 is nil), the maps in syncMapPool, the keys of each map, the maps
    \* made so far, whether Escape was called on a Context, the map its first
    \* and its last ContextValue call of the request returned
    ctxPool, pst, pesc, pcv, mapPool, mapKeys, mapsMade, escCalled, cvFirst,
    cvLast,
    \* an upload: c.FileStorage (0 is nil), the storage given to the last
    \* SaveUploadFileWith, whether the upload could be read, the storages that
    \* call called Save on, what it returned, whether it was made through
    \* SaveUploadFile, how many calls were made
    FileStorage, fsArg, upload, saves, saveRet, viaDefault, saveCalls

ctxVars == <<index, abortIndex, group, Parsers, queryCache, formCache,
             contextValue, escape, abort, Validator, Request>>
\* what the specifications of the chain executor never touch
shareVars == <<heap, engineSlice, reqSlice, expect, shareRet>>
cacheVars == <<aliased, computed, first, returned, stale, touched>>
poolVars == <<ctxPool, pst, pesc, pcv, mapPool, mapKeys, mapsMade, escCalled,
              cvFirst, cvLast>>
uploadVars == <<FileStorage, fsArg, upload, saves, saveRet, viaDefault,
                saveCalls>>
extVars == <<added, shareVars, cacheVars, poolVars, uploadVars>>
fixedVars == <<engineValidator, extVars>>
envVars == <<syncMapPool, engineParsers, fixedVars>>
ctlVars == <<status, stack, panicking>>
histVars == <<invoked, nextCalls, abortCalls, abortBy, abortDepth, afterAbort,
              abortRecovered, faulted, topVal, exitInvoked, raised, reused>>
dataVars == <<calls, dataRet>>
vars == <<ctxVars, envVars, ctlVars, histVars, dataVars>>
\* the variables of the single-Context specifications
coreVars == <<ctxVars, syncMapPool, engineParsers, engineValidator, ctlVars,
              histVars, dataVars>>

(* ----------------------------- values ---------------------------------- *)
\* the variables a specification does not use keep these values
IdleAdded == added = <<>>
IdleShare ==
    /\ heap = <<>>
    /\ engineSlice = 0
    /\ reqSlice = 0
    /\ expect = 0
    /\ shareRet = 0
IdleCache ==
    /\ aliased = FALSE
    /\ computed = [q |-> 0, f |-> 0]
    /\ first = [q |-> [nil |-> TRUE, kv |-> {}], f |-> [nil |-> TRUE, kv |-> {}]]
    /\ returned = first
    /\ stale = [q |-> FALSE, f |-> FALSE]
    /\ touched = FALSE
\* the Contexts and the maps the pools can make
Ctxs == 1..MaxCtx
Maps == 1..MaxMaps
IdlePool ==
    /\ ctxPool = {}
    /\ pst = [c \in Ctxs |-> "unborn"]
    /\ pesc = [c \in Ctxs |-> FALSE]
    /\ pcv = [c \in Ctxs |-> 0]
    /\ mapPool = {}
    /\ mapKeys = [m \in Maps |-> {}]
    /\ mapsMade = {}
    /\ escCalled = [c \in Ctxs |-> FALSE]
    /\ cvFirst = [c \in Ctxs |-> 0]
    /\ cvLast = [c \in Ctxs |-> 0]
IdleUpload ==
    /\ FileStorage = 0
    /\ fsArg = 0
    /\ upload = "ok"
    /\ saves = <<>>
    /\ saveRet = "none"
    /\ viaDefault = FALSE
    /\ saveCalls = 0
IdleExt == IdleAdded /\ IdleShare /\ IdleCache /\ IdlePool /\ IdleUpload

\* no value is being unwound
NoPanic == "none"
\* Engine.Abort, the Exit that init installs as c.abort
EngineExit == "engineExit"
\* an Exit a handler passes to AbortWith
UserExit == "userExit"
\* a panic value that is not an Exit (a defect in a handler, a runtime error)
Fault == "fault"
ExitValues == {EngineExit, UserExit}

\* url.Values: a nil map, or a map with a set of key/value pairs
NilValues == [nil |-> TRUE, kv |-> {}]
MkValues(s) == [nil |-> FALSE, kv |-> s]

\* a Parsers slice: nil, or a list of parsers
NilParsers == [nil |-> TRUE, items |-> <<>>]
MkParsers(s) == [nil |-> FALSE, items |-> s]

\* *SyncMap: nil, or a map holding a set of keys
NilMap == [nil |-> TRUE, keys |-> {}]
MkMap(s) == [nil |-> FALSE, keys |-> s]

\* the requests the transport delivers: raw query string and posted form
Requests == {[rawQuery |-> "", postForm |-> "", contentType |-> "text/plain"],
             [rawQuery |-> "a=1", postForm |-> "b=2",
              contentType |-> "application/json"]}
NoRequest == [rawQuery |-> "-", postForm |-> "-", contentType |-> "-"]

(* ------------------------ the chain executor --------------------------- *)
\* c.index++ on a uint8
IncIndex_Twice(i) == (i + 2) % Uint8Mod
IncIndex(i) == (i + 1) % Uint8Mod

\* the loop test of Next: c.index <= uint8(len(c.group))
NextCond_Strict(i, n) == i < (n % Uint8Mod)
NextCond(i, n) == i <= (n % Uint8Mod)

\* c.index - 1 on a uint8, the slot Next reads and AbortWith records
IndexMinusOne_Same(i) == i
IndexMinusOne(i) == (i + Uint8Mod - 1) % Uint8Mod

\* IsAborted(): c.abortIndex != 0
IsAborted == abortIndex # 0

\* AbortHandler(): nil (0) when not aborted, else c.group[c.abortIndex]; Go
\* panics when the index is not below len(c.group) ("outOfRange")
AbortHandler ==
    IF ~IsAborted THEN 0
    ELSE IF abortIndex < Len(group) THEN group[abortIndex + 1]
    ELSE -1

\* rec.(Exit) in Context.recover: is the recovered value an Exit
RecoveredIsExit_Any(v) == TRUE
RecoveredIsExit(v) == v \in ExitValues

\* the value AbortWith panics with
AbortPanic_None(exit) == NoPanic
AbortPanic(exit) == exit

(* ----------------------------- frames ---------------------------------- *)
\* a frame of the call stack: start(), Next(), a handler, or an Exit behaviour
Frame(k, h, rec, n) == [k |-> k, h |-> h, rec |-> rec, n |-> n]
Top == stack[Len(stack)]
Pop == SubSeq(stack, 1, Len(stack) - 1)
InHandler == /\ status = "running" /\ panicking = NoPanic
             /\ stack # <<>> /\ Top.k = "handler"
InExit == /\ status = "running" /\ panicking = NoPanic
          /\ stack # <<>> /\ Top.k = "exit"
HandlerDepth == Cardinality({i \in 1..Len(stack) : stack[i].k = "handler"})

\* what runs once an abort has been called in this request
Ran(ev, h) == IF abortCalls > 0 THEN afterAbort \cup {<<ev, h>>} ELSE afterAbort

(* ------------------------- parser dispatch ----------------------------- *)
\* a parser: the Content-Type values its Match accepts, what its Parse returns
Parser(name, match, result) == [name |-> name, match |-> match, result |-> result]

\* Parser.Match(context)
Match(p, req) == req.contentType \in p.match

\* Parsers.Parse: the loop from position i on; the value returned and the
\* Match / Parse calls made, in order
RECURSIVE ParseFrom(_, _, _)
ParseFrom(p, i, req) ==
    IF i > Len(p) THEN [ret |-> "ParseError", calls |-> <<>>]
    ELSE IF Match(p[i], req)
         THEN [ret |-> p[i].result, calls |-> <<<<"Match", i>>, <<"Parse", i>>>>]
         ELSE LET rest == ParseFrom(p, i + 1, req)
              IN  [ret |-> rest.ret, calls |-> <<<<"Match", i>>>> \o rest.calls]

ParsersParse_Last(p, req) ==
    LET hit == {i \in 1..Len(p) : Match(p[i], req)}
    IN  IF hit = {} THEN [ret |-> "ParseError",
                          calls |-> [i \in 1..Len(p) |-> <<"Match", i>>]]
        ELSE LET m == CHOOSE i \in hit : \A j \in hit : j <= i
             IN  [ret |-> p[m].result,
                  calls |-> [i \in 1..Len(p) |-> <<"Match", i>>] \o <<<<"Parse", m>>>>]
ParsersParse(p, req) == ParseFrom(p, 1, req)

\* Data: the list it dispatches on (the engine's when c.Parsers is nil)
DataParsers(own, engine) == IF own.nil THEN engine ELSE own

\* Data: the error returned and the calls made, Validate included
DataOutcome_Always(ps, req, validator) ==
    LET r == ParsersParse(ps.items, req)
    IN  [ret |-> IF r.ret # "nil" THEN r.ret ELSE validator,
         calls |-> r.calls \o <<<<"Validate", 0>>>>]
DataOutcome(ps, req, validator) ==
    LET r == ParsersParse(ps.items, req)
    IN  IF r.ret # "nil" THEN r
        ELSE [ret |-> validator, calls |-> r.calls \o <<<<"Validate", 0>>>>]

\* Context.Data
Data ==
    /\ Parsers' = DataParsers(Parsers, engineParsers)
    /\ LET out == DataOutcome(Parsers', Request, Validator)
       IN  /\ dataRet' = out.ret
           /\ calls' = out.calls

\* url.URL.Query() and Request.PostForm after ParseForm: never a nil map
ParseValues(raw) == IF raw = "" THEN MkValues({}) ELSE MkValues({raw})

(* --------------------------- the pools --------------------------------- *)
\* SyncMap.Clear
SyncMapClear(keys) == {}

\* Context.reset
reset ==
    /\ index' = 0
    /\ Parsers' = NilParsers
    /\ queryCache' = NilValues
    /\ formCache' = NilValues
    /\ IF ~contextValue.nil
       THEN /\ syncMapPool' = Append(syncMapPool, SyncMapClear(contextValue.keys))
            /\ contextValue' = NilMap
       ELSE UNCHANGED <<syncMapPool, contextValue>>
    /\ UNCHANGED <<abortIndex, group, escape, abort, Validator, Request>>

\* a Context as the pool's New makes it: every field zero
NewContext ==
    /\ index' = 0
    /\ abortIndex' = 0
    /\ group' = <<>>
    /\ Parsers' = NilParsers
    /\ queryCache' = NilValues
    /\ formCache' = NilValues
    /\ contextValue' = NilMap
    /\ escape' = FALSE
    /\ abort' = NoPanic
    /\ Validator' = "nil"
    /\ Request' = NoRequest

\* the engine takes a Context out of the pool
Acquire ==
    /\ status = "pooled"
    /\ status' = "acquired"
    /\ UNCHANGED <<ctxVars, envVars, stack, panicking, histVars, dataVars>>

\* the pool is empty (the last Context escaped): the engine gets a new one
AcquireNew ==
    /\ status = "abandoned"
    /\ status' = "acquired"
    /\ NewContext
    /\ reused' = FALSE
    /\ UNCHANGED <<envVars, stack, panicking, dataVars, invoked, nextCalls,
                   abortCalls, abortBy, abortDepth, afterAbort, abortRecovered,
                   faulted, topVal, exitInvoked, raised>>

\* Context.init for a request with a chain of n handlers
init(n, req) ==
    /\ status = "acquired"
    /\ status' = "initialized"
    /\ Request' = req
    /\ group' = [i \in 1..n |-> i]
    /\ abort' = EngineExit
    /\ Validator' = engineValidator
    /\ invoked' = <<>>
    /\ nextCalls' = 0
    /\ abortCalls' = 0
    /\ abortBy' = 0
    /\ abortDepth' = 0
    /\ afterAbort' = {}
    /\ abortRecovered' = FALSE
    /\ faulted' = FALSE
    /\ topVal' = NoPanic
    /\ exitInvoked' = <<>>
    /\ raised' = NoPanic
    /\ UNCHANGED <<index, abortIndex, Parsers, queryCache, formCache,
                   contextValue, escape, envVars, stack, panicking, reused,
                   dataVars>>

\* the request is over: the engine resets the Context and puts it back, unless
\* a handler called Escape
Release ==
    /\ status \in {"done", "panicked", "exitPanicked"}
    /\ IF escape
       THEN /\ status' = "abandoned"
            /\ UNCHANGED <<ctxVars, envVars, reused>>
       ELSE /\ status' = "pooled"
            /\ reset
            /\ reused' = TRUE
            /\ UNCHANGED <<engineParsers, fixedVars>>
    /\ UNCHANGED <<stack, panicking, dataVars, invoked, nextCalls, abortCalls,
                   abortBy, abortDepth, afterAbort, abortRecovered, faulted,
                   topVal, exitInvoked, raised>>

(* ----------------------- start, Next, handlers ------------------------- *)
unchangedFields == <<group, Parsers, queryCache, formCache, contextValue,
                     escape, abort, Validator, Request>>

\* Context.start: defer c.recover(), then c.Next() up to its loop test
start ==
    /\ status = "initialized"
    /\ status' = "running"
    /\ index' = IncIndex(index)
    /\ stack' = <<Frame("start", 0, FALSE, 0), Frame("next", 0, FALSE, 0)>>
    /\ UNCHANGED <<abortIndex, unchangedFields, envVars, panicking, histVars,
                   dataVars>>

\* Context.Next, one turn of the loop: call the handler at the cursor, or
\* return to the caller when the cursor has passed the chain
NextLoop ==
    /\ status = "running"
    /\ panicking = NoPanic
    /\ stack # <<>>
    /\ Top.k = "next"
    /\ IF NextCond(index, Len(group))
       THEN LET slot == IndexMinusOne(index)
            IN  IF slot < Len(group)
                THEN /\ stack' = Append(stack,
                                        Frame("handler", group[slot + 1], FALSE, 0))
                     /\ invoked' = Append(invoked, group[slot + 1])
                     /\ afterAbort' = Ran("invoke", group[slot + 1])
                     /\ UNCHANGED <<panicking, faulted>>
                ELSE /\ panicking' = Fault
                     /\ faulted' = TRUE
                     /\ UNCHANGED <<stack, invoked, afterAbort>>
       ELSE /\ stack' = Pop
            /\ UNCHANGED <<panicking, faulted, invoked, afterAbort>>
    /\ UNCHANGED <<ctxVars, envVars, status, dataVars, nextCalls, abortCalls,
                   abortBy, abortDepth, abortRecovered, topVal, exitInvoked,
                   raised, reused>>

\* a handler calls c.Next(): the cursor moves on and the loop is entered
HandlerNext ==
    /\ InHandler
    /\ Top.n < MaxNextCalls
    /\ index' = IncIndex(index)
    /\ stack' = Append([stack EXCEPT ![Len(stack)].n = @ + 1],
                       Frame("next", 0, FALSE, 0))
    /\ nextCalls' = nextCalls + 1
    /\ afterAbort' = Ran("run", Top.h)
    /\ UNCHANGED <<abortIndex, unchangedFields, envVars, status, panicking,
                   dataVars, invoked, abortCalls, abortBy, abortDepth,
                   abortRecovered, faulted, topVal, exitInvoked, raised, reused>>

\* a handler defers a function that calls recover()
HandlerDefer ==
    /\ InHandler
    /\ ~Top.rec
    /\ stack' = [stack EXCEPT ![Len(stack)].rec = TRUE]
    /\ UNCHANGED <<ctxVars, envVars, status, panicking, histVars, dataVars>>

AbortWith_Once(exit) ==
    /\ abortIndex' = IF abortIndex = 0 THEN IndexMinusOne(index) ELSE abortIndex
    /\ panicking' = AbortPanic(exit)
    /\ abortCalls' = abortCalls + 1

\* Context.AbortWith(exit); Abort() is AbortWith(c.abort)
AbortWith(exit) ==
    /\ abortIndex' = IndexMinusOne(index)
    /\ panicking' = AbortPanic(exit)
    /\ abortCalls' = abortCalls + 1

\* a handler calls c.Abort() or c.AbortWith(exit)
HandlerAbort ==
    /\ InHandler
    /\ \E exit \in {abort, UserExit} : AbortWith(exit)
    /\ abortBy' = Top.h
    /\ abortDepth' = HandlerDepth
    /\ afterAbort' = Ran("run", Top.h)
    /\ UNCHANGED <<index, unchangedFields, envVars, status, stack, dataVars,
                   invoked, nextCalls, abortRecovered, faulted, topVal,
                   exitInvoked, raised, reused>>

\* a handler panics with a value that is no Exit
HandlerPanic ==
    /\ InHandler
    /\ panicking' = Fault
    /\ faulted' = TRUE
    /\ afterAbort' = Ran("run", Top.h)
    /\ UNCHANGED <<ctxVars, envVars, status, stack, dataVars, invoked,
                   nextCalls, abortCalls, abortBy, abortDepth, abortRecovered,
                   topVal, exitInvoked, raised, reused>>

\* a handler returns to the loop of Next, which moves the cursor on
HandlerReturn ==
    /\ InHandler
    /\ stack' = Pop
    /\ index' = IncIndex(index)
    /\ afterAbort' = Ran("return", Top.h)
    /\ UNCHANGED <<abortIndex, unchangedFields, envVars, status, panicking,
                   dataVars, invoked, nextCalls, abortCalls, abortBy,
                   abortDepth, abortRecovered, faulted, topVal, exitInvoked,
                   raised, reused>>

(* ------------------- what handlers do with the fields ------------------ *)
\* left alone by a handler's use of one field
useUnchanged == <<index, abortIndex, group, escape, abort, Validator, Request,
                  engineParsers, fixedVars, status, stack, panicking,
                  invoked, nextCalls, abortCalls, abortBy, abortDepth,
                  abortRecovered, faulted, topVal, exitInvoked, raised, reused>>

\* the parser a handler adds
UserParser == Parser("user", {"text/plain"}, "nil")

\* Query without the cache: the value is computed by every call
Query_Always == queryCache' = ParseValues(Request.rawQuery)

\* Context.Query
Query == queryCache' = IF queryCache.nil THEN ParseValues(Request.rawQuery)
                       ELSE queryCache

\* Context.Form
Form == formCache' = IF formCache.nil THEN ParseValues(Request.postForm)
                     ELSE formCache

\* Context.AddParser(p)
AddParser(p) == Parsers' = MkParsers(Append(Parsers.items, p))

\* Context.ContextValue
ContextValue ==
    IF contextValue.nil
    THEN IF syncMapPool # <<>>
         THEN /\ contextValue' = MkMap(Head(syncMapPool))
              /\ syncMapPool' = Tail(syncMapPool)
         ELSE /\ contextValue' = MkMap({})
              /\ syncMapPool' = syncMapPool
    ELSE UNCHANGED <<contextValue, syncMapPool>>

\* Context.Escape
Escape == escape' = TRUE

HandlerQuery ==
    /\ InHandler
    /\ Query
    /\ afterAbort' = Ran("run", Top.h)
    /\ UNCHANGED <<useUnchanged, Parsers, formCache, contextValue, syncMapPool,
                   dataVars>>

HandlerForm ==
    /\ InHandler
    /\ Form
    /\ afterAbort' = Ran("run", Top.h)
    /\ UNCHANGED <<useUnchanged, Parsers, queryCache, contextValue, syncMapPool,
                   dataVars>>

HandlerAddParser ==
    /\ InHandler
    /\ Len(Parsers.items) < MaxParsers
    /\ AddParser(UserParser)
    /\ afterAbort' = Ran("run", Top.h)
    /\ UNCHANGED <<useUnchanged, queryCache, formCache, contextValue,
                   syncMapPool, dataVars>>

HandlerData ==
    /\ InHandler
    /\ Data
    /\ afterAbort' = Ran("run", Top.h)
    /\ UNCHANGED <<useUnchanged, queryCache, formCache, contextValue,
                   syncMapPool>>

HandlerContextValue ==
    /\ InHandler
    /\ ContextValue
    /\ afterAbort' = Ran("run", Top.h)
    /\ UNCHANGED <<useUnchanged, Parsers, queryCache, formCache, dataVars>>

\* a handler stores a key in the map ContextValue gave it
HandlerStore ==
    /\ InHandler
    /\ ~contextValue.nil
    /\ contextValue' = MkMap(contextValue.keys \cup {"k"})
    /\ afterAbort' = Ran("run", Top.h)
    /\ UNCHANGED <<useUnchanged, Parsers, queryCache, formCache, syncMapPool,
                   dataVars>>

HandlerEscape ==
    /\ InHandler
    /\ Escape
    /\ afterAbort' = Ran("run", Top.h)
    /\ UNCHANGED <<index, abortIndex, group, abort, Validator, Request,
                   Parsers, queryCache, formCache, contextValue, envVars,
                   ctlVars, dataVars, invoked, nextCalls, abortCalls, abortBy,
                   abortDepth, abortRecovered, faulted, topVal, exitInvoked,
                   raised, reused>>

(* ------------------------- panic and recover --------------------------- *)
Unwinding == /\ status = "running" /\ panicking # NoPanic /\ stack # <<>>

\* the panic leaves a frame of Next, or a handler that defers no recover
UnwindFrame ==
    /\ Unwinding
    /\ (Top.k = "next" \/ (Top.k = "handler" /\ ~Top.rec))
    /\ stack' = Pop
    /\ UNCHANGED <<ctxVars, envVars, status, panicking, histVars, dataVars>>

\* the panic reaches a handler that defers a recover(): the handler returns
\* to the loop of Next, which moves the cursor on
HandlerRecover ==
    /\ Unwinding
    /\ Top.k = "handler"
    /\ Top.rec
    /\ panicking' = NoPanic
    /\ stack' = Pop
    /\ index' = IncIndex(index)
    /\ abortRecovered' = (abortRecovered \/ panicking \in ExitValues)
    /\ UNCHANGED <<abortIndex, unchangedFields, envVars, status, dataVars,
                   invoked, nextCalls, abortCalls, abortBy, abortDepth,
                   afterAbort, faulted, topVal, exitInvoked, raised, reused>>

\* Context.recover, deferred by start: an Exit has its Exit(c) called, any
\* other value is panicked again
recover ==
    /\ Unwinding
    /\ Top.k = "start"
    /\ topVal' = panicking
    /\ panicking' = NoPanic
    /\ IF RecoveredIsExit(panicking)
       THEN /\ exitInvoked' = Append(exitInvoked, panicking)
            /\ stack' = Append(stack, Frame("exit", 0, FALSE, 0))
            /\ UNCHANGED <<status, raised>>
       ELSE /\ status' = "panicked"
            /\ raised' = panicking
            /\ stack' = <<>>
            /\ UNCHANGED exitInvoked
    /\ UNCHANGED <<ctxVars, envVars, dataVars, invoked, nextCalls, abortCalls,
                   abortBy, abortDepth, afterAbort, abortRecovered, faulted,
                   reused>>

\* Next returned to start with nothing to recover: start returns
StartReturn ==
    /\ status = "running"
    /\ panicking = NoPanic
    /\ stack # <<>>
    /\ Top.k = "start"
    /\ status' = "done"
    /\ stack' = <<>>
    /\ UNCHANGED <<ctxVars, envVars, panicking, histVars, dataVars>>

\* the Exit behaviour returns, and start with it
ExitReturn ==
    /\ InExit
    /\ status' = "done"
    /\ stack' = <<>>
    /\ UNCHANGED <<ctxVars, envVars, panicking, histVars, dataVars>>

\* the Exit behaviour calls c.Abort() itself
ExitAbort ==
    /\ InExit
    /\ Top.n = 0
    /\ AbortWith(abort)
    /\ stack' = [stack EXCEPT ![Len(stack)].n = 1]
    /\ UNCHANGED <<index, unchangedFields, envVars, status, dataVars, invoked,
                   nextCalls, abortBy, abortDepth, afterAbort, abortRecovered,
                   faulted, topVal, exitInvoked, raised, reused>>

\* a panic inside the Exit behaviour leaves the deferred recover and start
ExitRaise ==
    /\ Unwinding
    /\ Top.k = "exit"
    /\ status' = "exitPanicked"
    /\ raised' = panicking
    /\ panicking' = NoPanic
    /\ stack' = <<>>
    /\ UNCHANGED <<ctxVars, envVars, dataVars, invoked, nextCalls, abortCalls,
                   abortBy, abortDepth, afterAbort, abortRecovered, faulted,
                   topVal, exitInvoked, reused>>

(* --------------------- the life of one Context ------------------------- *)
\* the engine's default parsers, as the requests of this model see them
DefaultParsers == MkParsers(<<Parser("form", {"application/x-www-form-urlencoded"}, "nil"),
                              Parser("json", {"application/json"}, "nil")>>)

Init ==
    /\ index = 0
    /\ abortIndex = 0
    /\ group = <<>>
    /\ Parsers = NilParsers
    /\ queryCache = NilValues
    /\ formCache = NilValues
    /\ contextValue = NilMap
    /\ escape = FALSE
    /\ abort = NoPanic
    /\ Validator = "nil"
    /\ Request = NoRequest
    /\ syncMapPool = <<>>
    /\ engineParsers = DefaultParsers
    /\ engineValidator = "nil"
    /\ status = "pooled"
    /\ stack = <<>>
    /\ panicking = NoPanic
    /\ invoked = <<>>
    /\ nextCalls = 0
    /\ abortCalls = 0
    /\ abortBy = 0
    /\ abortDepth = 0
    /\ afterAbort = {}
    /\ abortRecovered = FALSE
    /\ faulted = FALSE
    /\ topVal = NoPanic
    /\ exitInvoked = <<>>
    /\ raised = NoPanic
    /\ reused = FALSE
    /\ calls = <<>>
    /\ dataRet = "nil"
    /\ IdleExt

\* the engine's part of a request
Engine ==
    \/ Acquire
    \/ \E n \in 0..MaxChain, req \in Requests : init(n, req)
    \/ start
    \/ Release

\* the chain executor, and what a handler can do to the chain
Chain ==
    \/ NextLoop
    \/ HandlerAbort
    \/ HandlerReturn
    \/ UnwindFrame
    \/ recover
    \/ StartReturn
    \/ ExitReturn

Reentry ==
    \/ HandlerNext
    \/ HandlerDefer
    \/ HandlerPanic
    \/ HandlerRecover
    \/ ExitAbort
    \/ ExitRaise

\* what a handler can do to the fields of the Context
Fields ==
    \/ HandlerQuery
    \/ HandlerForm
    \/ HandlerAddParser
    \/ HandlerData
    \/ HandlerContextValue
    \/ HandlerStore
    \/ HandlerEscape
    \/ AcquireNew

\* requests served one after the other by one pooled Context: the executor
Next == Engine \/ Chain \/ Reentry

Spec == Init /\ [][Next]_vars

\* the same, with handlers that use the fields and do not re-enter Next
NextReuse == Engine \/ Chain \/ Fields

SpecReuse == Init /\ [][NextReuse]_vars

(* --------------------- dispatch and Data on their own ------------------ *)
\* the parsers of a dispatch list: whether Match accepts the request, and
\* what Parse returns
ParserKinds == {Parser(n, m, r) : n \in {"p"}, m \in {{}, {"application/json"}},
                                  r \in {"nil", "decodeErr"}}

RECURSIVE ListsUpTo(_)
ListsUpTo(n) ==
    IF n = 0 THEN {<<>>}
    ELSE LET shorter == ListsUpTo(n - 1)
         IN  shorter \cup {Append(l, k) : l \in shorter, k \in ParserKinds}

ParserLists == {NilParsers} \cup {MkParsers(l) : l \in ListsUpTo(MaxParsers)}

\* a Context initialised for a JSON request, about to dispatch
InitData ==
    /\ index = 0
    /\ abortIndex = 0
    /\ group = <<>>
    /\ Parsers \in ParserLists
    /\ queryCache = NilValues
    /\ formCache = NilValues
    /\ contextValue = NilMap
    /\ escape = FALSE
    /\ abort = EngineExit
    /\ engineValidator \in {"nil", "validateErr"}
    /\ Validator = engineValidator
    /\ Request = [rawQuery |-> "", postForm |-> "",
                  contentType |-> "application/json"]
    /\ syncMapPool = <<>>
    /\ engineParsers \in {MkParsers(<<>>), DefaultParsers}
    /\ status = "ready"
    /\ stack = <<>>
    /\ panicking = NoPanic
    /\ invoked = <<>>
    /\ nextCalls = 0
    /\ abortCalls = 0
    /\ abortBy = 0
    /\ abortDepth = 0
    /\ afterAbort = {}
    /\ abortRecovered = FALSE
    /\ faulted = FALSE
    /\ topVal = NoPanic
    /\ exitInvoked = <<>>
    /\ raised = NoPanic
    /\ reused = FALSE
    /\ calls = <<>>
    /\ dataRet = "nil"
    /\ IdleExt

\* c.Parsers.Parse(c, v) called on the list as it stands
ParseCall ==
    /\ status = "ready"
    /\ status' = "parsed"
    /\ LET out == ParsersParse(Parsers.items, Request)
       IN  /\ dataRet' = out.ret
           /\ calls' = out.calls
    /\ UNCHANGED <<ctxVars, envVars, stack, panicking, histVars>>

\* c.Data(v)
DataCall ==
    /\ status = "ready"
    /\ status' = "dataReturned"
    /\ Data
    /\ UNCHANGED <<index, abortIndex, group, queryCache, formCache,
                   contextValue, escape, abort, Validator, Request, envVars,
                   stack, panicking, histVars>>

NextData == ParseCall \/ DataCall

SpecData == InitData /\ [][NextData]_vars

(* ------------------- AddParser and Data in one request ----------------- *)
\* the parsers a handler passes to AddParser
AddKinds == {UserParser,
             Parser("userJson", {"application/json"}, "decodeErr"),
             Parser("userAny", {"text/plain", "application/json"}, "nil")}

\* a Context initialised for a request, no parser configured yet
InitAdd ==
    /\ index = 0
    /\ abortIndex = 0
    /\ group = <<>>
    /\ Parsers = NilParsers
    /\ queryCache = NilValues
    /\ formCache = NilValues
    /\ contextValue = NilMap
    /\ escape = FALSE
    /\ abort = EngineExit
    /\ engineValidator \in {"nil", "validateErr"}
    /\ Validator = engineValidator
    /\ Request \in Requests
    /\ syncMapPool = <<>>
    /\ engineParsers = DefaultParsers
    /\ status = "ready"
    /\ stack = <<>>
    /\ panicking = NoPanic
    /\ invoked = <<>>
    /\ nextCalls = 0
    /\ abortCalls = 0
    /\ abortBy = 0
    /\ abortDepth = 0
    /\ afterAbort = {}
    /\ abortRecovered = FALSE
    /\ faulted = FALSE
    /\ topVal = NoPanic
    /\ exitInvoked = <<>>
    /\ raised = NoPanic
    /\ reused = FALSE
    /\ calls = <<>>
    /\ dataRet = "nil"
    /\ IdleExt

\* c.AddParser(p), before or after a Data
AddParserCall ==
    /\ status \in {"ready", "dataReturned"}
    /\ Len(added) < MaxParsers
    /\ \E p \in AddKinds :
           /\ AddParser(p)
           /\ added' = Append(added, p)
    /\ status' = "ready"
    /\ UNCHANGED <<index, abortIndex, group, queryCache, formCache,
                   contextValue, escape, abort, Validator, Request,
                   syncMapPool, engineParsers, engineValidator, stack,
                   panicking, histVars, dataVars, shareVars, cacheVars,
                   poolVars, uploadVars>>

NextAdd == AddParserCall \/ DataCall

SpecAdd == InitAdd /\ [][NextAdd]_vars

(* --------------- requests sharing the engine's parser slice ------------ *)
\* most unused cells behind the engine's default parser list
MaxSpare == 1
\* the requests served at the same time, each by its own Context
ShareReqs == {1, 2}
\* a cell of a backing array beyond every slice's length
FreeCell == "free"

\* the single-Context variables while another specification runs
IdleCore ==
    /\ index = 0
    /\ abortIndex = 0
    /\ group = <<>>
    /\ Parsers = NilParsers
    /\ queryCache = NilValues
    /\ formCache = NilValues
    /\ contextValue = NilMap
    /\ escape = FALSE
    /\ abort = EngineExit
    /\ engineValidator = "nil"
    /\ Validator = "nil"
    /\ Request = NoRequest
    /\ syncMapPool = <<>>
    /\ engineParsers = DefaultParsers
    /\ status = "idle"
    /\ stack = <<>>
    /\ panicking = NoPanic
    /\ invoked = <<>>
    /\ nextCalls = 0
    /\ abortCalls = 0
    /\ abortBy = 0
    /\ abortDepth = 0
    /\ afterAbort = {}
    /\ abortRecovered = FALSE
    /\ faulted = FALSE
    /\ topVal = NoPanic
    /\ exitInvoked = <<>>
    /\ raised = NoPanic
    /\ reused = FALSE
    /\ calls = <<>>
    /\ dataRet = "nil"

\* a Go slice: nil, or the first len cells of backing array arr
NilSlice == [nil |-> TRUE, arr |-> 0, len |-> 0]
MkSlice(a, n) == [nil |-> FALSE, arr |-> a, len |-> n]
\* the elements of slice sl in heap h
SliceItems(h, sl) == IF sl.nil THEN <<>> ELSE SubSeq(h[sl.arr], 1, sl.len)
\* cap(sl)
SliceCap(h, sl) == IF sl.nil THEN 0 ELSE Len(h[sl.arr])

\* append(sl, p): in place when a cell is free, else in a new array of
\* twice the capacity holding a copy
AppendInPlace(h, sl) == sl.len < SliceCap(h, sl)
AppendHeap(h, sl, p) ==
    IF AppendInPlace(h, sl)
    THEN [h EXCEPT ![sl.arr][sl.len + 1] = p]
    ELSE Append(h, SliceItems(h, sl) \o <<p>> \o
                   [i \in 1..(IF sl.len = 0 THEN 0 ELSE sl.len - 1) |-> FreeCell])
AppendSlice(h, sl, p) ==
    IF AppendInPlace(h, sl)
    THEN MkSlice(sl.arr, sl.len + 1)
    ELSE MkSlice(Len(h) + 1, sl.len + 1)

\* the request every Context of this specification serves
ShareRequest == [rawQuery |-> "", postForm |-> "", contentType |-> "application/json"]

\* the parser request r adds
ShareParser(r) ==
    Parser(IF r = 1 THEN "user1" ELSE "user2", {"text/plain"}, "nil")

InitShare ==
    /\ IdleCore
    /\ IdleAdded
    /\ IdleCache
    /\ IdlePool
    /\ IdleUpload
    /\ \E spare \in 0..MaxSpare :
           heap = <<DefaultParsers.items \o [i \in 1..spare |-> FreeCell]>>
    /\ engineSlice = MkSlice(1, Len(DefaultParsers.items))
    /\ reqSlice = [r \in ShareReqs |-> NilSlice]
    /\ expect = [r \in ShareReqs |-> <<>>]
    /\ shareRet = [r \in ShareReqs |-> "none"]

\* request r calls c.Data(v)
ShareData(r) ==
    /\ reqSlice' = [reqSlice EXCEPT ![r] = IF @.nil THEN engineSlice ELSE @]
    /\ expect' = [expect EXCEPT
                    ![r] = IF reqSlice[r].nil
                           THEN SliceItems(heap, engineSlice) ELSE @]
    /\ shareRet' = [shareRet EXCEPT
                      ![r] = DataOutcome(MkParsers(SliceItems(heap, reqSlice'[r])),
                                         ShareRequest, Validator).ret]
    /\ UNCHANGED <<heap, engineSlice, coreVars, added, cacheVars, poolVars,
                   uploadVars>>

\* how many parsers request r has added
OwnAdded(r) ==
    Cardinality({i \in DOMAIN expect[r] :
                    \A j \in DOMAIN DefaultParsers.items :
                        expect[r][i] # DefaultParsers.items[j]})

\* request r calls c.AddParser(p)
ShareAddParser(r, p) ==
    /\ OwnAdded(r) < MaxParsers
    /\ heap' = AppendHeap(heap, reqSlice[r], p)
    /\ reqSlice' = [reqSlice EXCEPT ![r] = AppendSlice(heap, @, p)]
    /\ expect' = [expect EXCEPT ![r] = Append(@, p)]
    /\ UNCHANGED <<engineSlice, shareRet, coreVars, added, cacheVars, poolVars,
                   uploadVars>>

NextShare ==
    \E r \in ShareReqs :
        \/ ShareData(r)
        \/ ShareAddParser(r, ShareParser(r))

SpecShare == InitShare /\ [][NextShare]_vars

(* ------------------- Query and Form in one request --------------------- *)
\* the raw queries and forms a handler can give the request
Contents == {"", "a=1", "c=3"}

\* left alone by Query, Form and a change of the request
cacheUnchanged == <<index, abortIndex, group, Parsers, contextValue, escape,
                    abort, Validator, syncMapPool, engineParsers,
                    engineValidator, added, shareVars, poolVars, uploadVars,
                    ctlVars, histVars,
                    dataVars>>

\* a handler calls c.Query()
CacheQuery ==
    /\ status = "initialized"
    /\ Query
    /\ computed' = [computed EXCEPT
                      !.q = IF queryCache.nil /\ @ < 2 THEN @ + 1 ELSE @]
    /\ first' = [first EXCEPT !.q = IF @.nil THEN queryCache' ELSE @]
    /\ returned' = [returned EXCEPT !.q = queryCache']
    /\ stale' = [stale EXCEPT
                   !.q = @ \/ (~queryCache.nil /\
                               ParseValues(Request.rawQuery) # queryCache)]
    /\ UNCHANGED <<formCache, Request, aliased, touched, cacheUnchanged>>

\* a handler calls c.Form(): the cache is the map Request.PostForm
CacheForm ==
    /\ status = "initialized"
    /\ Form
    /\ aliased' = IF formCache.nil THEN TRUE ELSE aliased
    /\ computed' = [computed EXCEPT
                      !.f = IF formCache.nil /\ @ < 2 THEN @ + 1 ELSE @]
    /\ first' = [first EXCEPT !.f = IF @.nil THEN formCache' ELSE @]
    /\ returned' = [returned EXCEPT !.f = formCache']
    /\ stale' = [stale EXCEPT
                   !.f = @ \/ (~formCache.nil /\
                               ParseValues(Request.postForm) # formCache)]
    /\ UNCHANGED <<queryCache, Request, touched, cacheUnchanged>>

\* a handler changes the request between two calls: it sets URL.RawQuery,
\* assigns a new map to Request.PostForm, or changes the map Request.PostForm
\* in place
ChangeRequest ==
    /\ status = "initialized"
    /\ \E v \in Contents :
        \/ /\ v # Request.rawQuery
           /\ Request' = [Request EXCEPT !.rawQuery = v]
           /\ UNCHANGED <<formCache, aliased, touched>>
        \/ /\ v # Request.postForm
           /\ Request' = [Request EXCEPT !.postForm = v]
           /\ aliased' = FALSE
           /\ UNCHANGED <<formCache, touched>>
        \/ /\ v # Request.postForm
           /\ Request' = [Request EXCEPT !.postForm = v]
           /\ formCache' = IF aliased THEN ParseValues(v) ELSE formCache
           /\ touched' = (touched \/ aliased)
           /\ UNCHANGED aliased
    /\ UNCHANGED <<queryCache, computed, first, returned, stale,
                   cacheUnchanged>>

\* the request is over: the Context is reset and pooled
CacheReset ==
    /\ status = "initialized"
    /\ status' = "pooled"
    /\ reset
    /\ aliased' = FALSE
    /\ computed' = [q |-> 0, f |-> 0]
    /\ first' = [q |-> NilValues, f |-> NilValues]
    /\ returned' = first'
    /\ stale' = [q |-> FALSE, f |-> FALSE]
    /\ touched' = FALSE
    /\ UNCHANGED <<engineParsers, engineValidator, added, shareVars, poolVars,
                   uploadVars, stack,
                   panicking, histVars, dataVars>>

NextCache ==
    \/ Acquire
    \/ \E req \in Requests : init(0, req)
    \/ CacheQuery
    \/ CacheForm
    \/ ChangeRequest
    \/ CacheReset

SpecCache == Init /\ [][NextCache]_vars

(* ------------------ several Contexts and the two pools ----------------- *)
\* left alone by the operations on the pools
poolUnchanged == <<coreVars, added, shareVars, cacheVars, uploadVars>>

InitPool == IdleCore /\ IdleExt

\* the engine takes Context c out of its pool, or the pool makes it
PoolAcquire(c) ==
    /\ pst[c] \in {"unborn", "pooled"}
    /\ pst' = [pst EXCEPT ![c] = "serving"]
    /\ ctxPool' = ctxPool \ {c}
    /\ cvFirst' = [cvFirst EXCEPT ![c] = 0]
    /\ cvLast' = [cvLast EXCEPT ![c] = 0]
    /\ UNCHANGED <<pesc, pcv, mapPool, mapKeys, mapsMade, escCalled,
                   poolUnchanged>>

\* a handler of c's request calls c.ContextValue(): syncMapPool.Get gives a
\* pooled map or a new one
PoolContextValue(c) ==
    /\ pst[c] = "serving"
    /\ IF pcv[c] = 0
       THEN \E m \in mapPool \cup (Maps \ mapsMade) :
                /\ pcv' = [pcv EXCEPT ![c] = m]
                /\ mapPool' = mapPool \ {m}
                /\ mapsMade' = mapsMade \cup {m}
       ELSE UNCHANGED <<pcv, mapPool, mapsMade>>
    /\ cvFirst' = [cvFirst EXCEPT ![c] = IF @ = 0 THEN pcv'[c] ELSE @]
    /\ cvLast' = [cvLast EXCEPT ![c] = pcv'[c]]
    /\ UNCHANGED <<ctxPool, pst, pesc, mapKeys, escCalled, poolUnchanged>>

\* a handler of c's request stores a key of its own in c's map
PoolStore(c) ==
    /\ pst[c] = "serving"
    /\ pcv[c] # 0
    /\ mapKeys' = [mapKeys EXCEPT ![pcv[c]] = @ \cup {c}]
    /\ UNCHANGED <<ctxPool, pst, pesc, pcv, mapPool, mapsMade, escCalled,
                   cvFirst, cvLast, poolUnchanged>>

\* Escape without the assignment
PoolEscape_Noop(c) ==
    /\ pst[c] = "serving"
    /\ escCalled' = [escCalled EXCEPT ![c] = TRUE]
    /\ UNCHANGED <<ctxPool, pst, pesc, pcv, mapPool, mapKeys, mapsMade,
                   cvFirst, cvLast, poolUnchanged>>

\* a handler of c's request calls c.Escape()
PoolEscape(c) ==
    /\ pst[c] = "serving"
    /\ pesc' = [pesc EXCEPT ![c] = TRUE]
    /\ escCalled' = [escCalled EXCEPT ![c] = TRUE]
    /\ UNCHANGED <<ctxPool, pst, pcv, mapPool, mapKeys, mapsMade, cvFirst,
                   cvLast, poolUnchanged>>

\* reset without the call of Clear
PoolResetPut_NoClear(c) ==
    /\ pst[c] = "resetting"
    /\ pst' = [pst EXCEPT ![c] = "put"]
    /\ mapPool' = IF pcv[c] # 0 THEN mapPool \cup {pcv[c]} ELSE mapPool
    /\ UNCHANGED <<ctxPool, pesc, pcv, mapKeys, mapsMade, escCalled, cvFirst,
                   cvLast, poolUnchanged>>

\* c.reset() up to syncMapPool.Put: the map is cleared and put back
PoolResetPut(c) ==
    /\ pst[c] = "resetting"
    /\ pst' = [pst EXCEPT ![c] = "put"]
    /\ IF pcv[c] # 0
       THEN /\ mapKeys' = [mapKeys EXCEPT ![pcv[c]] = SyncMapClear(@)]
            /\ mapPool' = mapPool \cup {pcv[c]}
       ELSE UNCHANGED <<mapKeys, mapPool>>
    /\ UNCHANGED <<ctxPool, pesc, pcv, mapsMade, escCalled, cvFirst, cvLast,
                   poolUnchanged>>

\* c.reset() from there: c.contextValue = nil
PoolResetNil(c) ==
    /\ pst[c] = "put"
    /\ pst' = [pst EXCEPT ![c] = "reset"]
    /\ pcv' = [pcv EXCEPT ![c] = 0]
    /\ UNCHANGED <<ctxPool, pesc, mapPool, mapKeys, mapsMade, escCalled,
                   cvFirst, cvLast, poolUnchanged>>

\* c's request is over: the engine leaves an escaped Context alone, resets
\* any other and then puts it into its pool
PoolRelease(c) ==
    /\ \/ /\ pst[c] = "serving"
          /\ pst' = [pst EXCEPT ![c] = IF pesc[c] THEN "abandoned"
                                       ELSE "resetting"]
          /\ UNCHANGED ctxPool
       \/ /\ pst[c] = "reset"
          /\ pst' = [pst EXCEPT ![c] = "pooled"]
          /\ ctxPool' = ctxPool \cup {c}
    /\ UNCHANGED <<pesc, pcv, mapPool, mapKeys, mapsMade, escCalled, cvFirst,
                   cvLast, poolUnchanged>>

NextPool ==
    \E c \in Ctxs :
        \/ PoolAcquire(c)
        \/ PoolContextValue(c)
        \/ PoolStore(c)
        \/ PoolEscape(c)
        \/ PoolResetPut(c)
        \/ PoolResetNil(c)
        \/ PoolRelease(c)

SpecPool == InitPool /\ [][NextPool]_vars

(* ------------------- the built-in parsers' Match ----------------------- *)
minePostForm == "application/x-www-form-urlencoded"
mimeJson == "application/json"
mimeMultipartPostForm == "multipart/form-data"

\* a Content-Type header is a sequence of pieces, each in one spelling
Pieces == {minePostForm, mimeJson, mimeMultipartPostForm,
           "Application/X-WWW-Form-Urlencoded", "APPLICATION/JSON",
           "Multipart/Form-Data", "; charset=utf-8", "text/plain"}

\* strings.ToLower, piece by piece
LowerPiece(t) ==
    CASE t = "Application/X-WWW-Form-Urlencoded" -> minePostForm
      [] t = "APPLICATION/JSON" -> mimeJson
      [] t = "Multipart/Form-Data" -> mimeMultipartPostForm
      [] OTHER -> t
ToLower(h) == [i \in DOMAIN h |-> LowerPiece(h[i])]

\* strings.Contains(h, t) for a one-piece t
Contains(h, t) == \E i \in DOMAIN h : h[i] = t

RECURSIVE HeadersUpTo(_)
HeadersUpTo(n) ==
    IF n = 0 THEN {<<>>}
    ELSE LET shorter == HeadersUpTo(n - 1)
         IN  shorter \cup {Append(h, t) : h \in shorter, t \in Pieces}
\* the Content-Type headers of the requests, the empty header among them
Headers == HeadersUpTo(MaxPieces)

\* FormParser.Match, JsonParser.Match, MultipartFormParser.Match
FormMatch(h) == ToLower(h) = <<minePostForm>>
JsonMatch_Contains(h) == Contains(ToLower(h), mimeJson)
JsonMatch(h) == ToLower(h) = <<mimeJson>>
MultipartMatch(h) == Contains(ToLower(h), mimeMultipartPostForm)

\* the built-in parsers in the order Form, JSON, Multipart
BuiltinParsers ==
    MkParsers(<<Parser("form", {h \in Headers : FormMatch(h)}, "nil"),
                Parser("json", {h \in Headers : JsonMatch(h)}, "nil"),
                Parser("multipart", {h \in Headers : MultipartMatch(h)}, "nil")>>)

\* a Context initialised for a request with any of the headers, about to
\* dispatch on the built-in parsers
InitMime ==
    /\ index = 0
    /\ abortIndex = 0
    /\ group = <<>>
    /\ Parsers \in {NilParsers, BuiltinParsers}
    /\ queryCache = NilValues
    /\ formCache = NilValues
    /\ contextValue = NilMap
    /\ escape = FALSE
    /\ abort = EngineExit
    /\ engineValidator \in {"nil", "validateErr"}
    /\ Validator = engineValidator
    /\ \E h \in Headers :
           Request = [rawQuery |-> "", postForm |-> "", contentType |-> h]
    /\ syncMapPool = <<>>
    /\ engineParsers = BuiltinParsers
    /\ status = "ready"
    /\ stack = <<>>
    /\ panicking = NoPanic
    /\ invoked = <<>>
    /\ nextCalls = 0
    /\ abortCalls = 0
    /\ abortBy = 0
    /\ abortDepth = 0
    /\ afterAbort = {}
    /\ abortRecovered = FALSE
    /\ faulted = FALSE
    /\ topVal = NoPanic
    /\ exitInvoked = <<>>
    /\ raised = NoPanic
    /\ reused = FALSE
    /\ calls = <<>>
    /\ dataRet = "nil"
    /\ IdleExt

SpecMime == InitMime /\ [][NextData]_vars

(* ------------------------- saving an upload ---------------------------- *)
\* a FileStorage value: nil (0) or one of the implementations
Storages == 0..MaxStores
\* c.Request.FormFile(name) and file.Close(): the file is there and closes,
\* there is no such file, or Close fails
Uploads == {"ok", "missing", "closeErr"}

\* left alone by the upload operations
uploadUnchanged == <<coreVars, added, shareVars, cacheVars, poolVars>>

\* Context.init has set c.FileStorage to the engine's
InitUpload ==
    /\ IdleCore
    /\ IdleAdded
    /\ IdleShare
    /\ IdleCache
    /\ IdlePool
    /\ FileStorage \in Storages
    /\ fsArg = 0
    /\ upload = "ok"
    /\ saves = <<>>
    /\ saveRet = "none"
    /\ viaDefault = FALSE
    /\ saveCalls = 0

\* a handler assigns the exported field c.FileStorage
SetFileStorage(s) ==
    /\ s # FileStorage
    /\ FileStorage' = s
    /\ UNCHANGED <<fsArg, upload, saves, saveRet, viaDefault, saveCalls,
                   uploadUnchanged>>

\* the body of SaveUploadFileWith(fs, name) for a file in state u: Save is
\* called on c.FileStorage, and calling it on nil panics
SaveWith(fs, u) ==
    /\ saveCalls < MaxSaves
    /\ saveCalls' = saveCalls + 1
    /\ fsArg' = fs
    /\ upload' = u
    /\ IF fs = 0 \/ u # "ok"
       THEN /\ saveRet' = "error"
            /\ saves' = <<>>
       ELSE IF FileStorage = 0
            THEN /\ saveRet' = "nilPanic"
                 /\ saves' = <<>>
            ELSE /\ saveRet' = "saved"
                 /\ saves' = <<FileStorage>>
    /\ UNCHANGED <<FileStorage, uploadUnchanged>>

\* a handler calls c.SaveUploadFileWith(fs, name)
SaveUploadFileWith(fs, u) ==
    /\ SaveWith(fs, u)
    /\ viaDefault' = FALSE

\* a handler calls c.SaveUploadFile(name)
SaveUploadFile(u) ==
    /\ SaveWith(FileStorage, u)
    /\ viaDefault' = TRUE

NextUpload ==
    \/ \E s \in Storages : SetFileStorage(s)
    \/ \E fs \in Storages, u \in Uploads : SaveUploadFileWith(fs, u)
    \/ \E u \in Uploads : SaveUploadFile(u)

SpecUpload == InitUpload /\ [][NextUpload]_vars

(* ----------------- chains as long as the cursor's range ---------------- *)
\* chain lengths around the range of the uint8 cursor
LongChains == {Uint8Mod - 2, Uint8Mod - 1, Uint8Mod, Uint8Mod + 1}

\* one request with such a chain, whose handlers only return
NextLong ==
    \/ Acquire
    \/ \E n \in LongChains :
           init(n, [rawQuery |-> "", postForm |-> "", contentType |-> "text/plain"])
    \/ start
    \/ NextLoop
    \/ HandlerReturn
    \/ UnwindFrame
    \/ recover
    \/ StartReturn

SpecLong == Init /\ [][NextLong]_vars

(* ============================== claims ================================= *)
\* a request holds the Context: from init until the engine releases it
InRequest == status \in {"initialized", "running", "done", "panicked",
                         "exitPanicked"}
\* start has ended, one way or the other
Ended == status \in {"done", "panicked", "exitPanicked"}
\* no handler has aborted or panicked in this request
Undisturbed == abortCalls = 0 /\ ~faulted

\* C1: in a request in which no handler aborts (or panics), the handlers
\* invoked so far are the first handlers of the chain, each once and in chain
\* order, and when start() has returned every handler of the chain has been
\* invoked, whether or not handlers called Next() themselves.
C1_EachOnceInOrder ==
    (InRequest /\ Undisturbed) =>
        /\ Len(invoked) <= Len(group)
        /\ invoked = SubSeq(group, 1, Len(invoked))
        /\ (status = "done" => invoked = group)

C1_Witness ==
    /\ status = "done"
    /\ Undisturbed
    /\ Len(group) = 3
    /\ nextCalls >= 2
    /\ invoked = group

\* C2 as stated: with no abort the cursor is at most N+1 in every state of the
\* request, and equals N+1 when the top-level Next() has returned, also for
\* handlers that call Next() re-entrantly.
C2_CursorAtMostNPlusOne ==
    (InRequest /\ Undisturbed) =>
        /\ index <= Len(group) + 1
        /\ (status = "done" => index = Len(group) + 1)

\* C2 amended: with no abort the cursor is at most N+1 plus the number of
\* Next() calls handlers have made, and equals N+1 plus that number when the
\* top-level Next() has returned (so N+1 exactly when no handler calls Next()).
C2_CursorCountsNextCalls ==
    (InRequest /\ Undisturbed) =>
        /\ index <= Len(group) + 1 + nextCalls
        /\ (status = "done" => index = Len(group) + 1 + nextCalls)
        /\ (nextCalls = 0 => index <= Len(group) + 1)

C2_Witness ==
    /\ status = "done"
    /\ Undisturbed
    /\ Len(group) = 3
    /\ nextCalls = 2
    /\ index = 6

C4_IsAbortedIffAborted ==
    InRequest =>
        /\ (abortBy # 0 => IsAborted)
        /\ (abortCalls = 0 => ~IsAborted)

\* C5 as stated: after the handler at position k has called
\* Abort()/AbortWith(), at whatever point of its execution, AbortHandler()
\* returns the handler at position k.
C5_AbortHandlerIsTheAborter ==
    (InRequest /\ abortBy # 0) => AbortHandler = abortBy

\* C6 as stated: a Context that was reset, pooled, reacquired and initialised
\* for a new request carries nothing of the prior request: cursor 0, abort
\* position 0 (IsAborted() false, AbortHandler() nil), caches nil, parser list
\* nil, auxiliary mapping unset.
C6_NoResidue ==
    (status = "initialized" /\ reused) =>
        /\ index = 0
        /\ abortIndex = 0
        /\ ~IsAborted
        /\ AbortHandler = 0
        /\ queryCache = NilValues
        /\ formCache = NilValues
        /\ Parsers = NilParsers
        /\ contextValue = NilMap

\* C7 as stated: once the abort position has been set to a non-zero value in
\* a request, no later operation of that request changes it.
C7_AbortIndexWrittenOnce ==
    [][(status = "running" /\ abortCalls > 0 /\ abortIndex # 0)
           => abortIndex' = abortIndex]_vars

\* C7 amended: the abort position is written by every call of
\* Abort()/AbortWith() and by nothing else: each call sets it to cursor - 1
\* (as a uint8), overwriting the value an earlier abort of the same request
\* left, and every other operation leaves it as it is.
C7_AbortIndexWrittenByEveryAbort ==
    [][/\ abortCalls' = abortCalls + 1 => abortIndex' = (index + 255) % 256
       /\ abortIndex' # abortIndex => abortCalls' = abortCalls + 1]_vars

C7_Witness ==
    /\ status = "running"
    /\ abortCalls = 2
    /\ abortRecovered
    /\ exitInvoked = <<>>
    /\ abortBy = 3
    /\ abortIndex = 2

Hits(p, req) == {i \in 1..Len(p) : Match(p[i], req)}
FirstHit(p, req) == CHOOSE i \in Hits(p, req) : \A j \in Hits(p, req) : i <= j

\* C9: Parsers.Parse calls Match in list order up to the first parser that
\* matches, calls Parse on that parser only and returns its result, calls
\* nothing on a later parser, and returns ParseError exactly when no parser
\* of the list matches (the empty list included).
C9_FirstMatchWins ==
    status = "parsed" =>
        LET p == Parsers.items
        IN  /\ (dataRet = "ParseError" <=> Hits(p, Request) = {})
            /\ IF Hits(p, Request) = {}
               THEN calls = [i \in 1..Len(p) |-> <<"Match", i>>]
               ELSE LET m == FirstHit(p, Request)
                    IN  /\ dataRet = p[m].result
                        /\ calls = [i \in 1..m |-> <<"Match", i>>]
                                       \o <<<<"Parse", m>>>>

C9_Witness ==
    /\ status = "parsed"
    /\ Len(Parsers.items) = 2
    /\ Hits(Parsers.items, Request) = {1, 2}
    /\ Parsers.items[1].result = "decodeErr"
    /\ Parsers.items[2].result = "nil"
    /\ dataRet = "decodeErr"

\* the Validate calls among the calls of a Data
Validations == {i \in 1..Len(calls) : calls[i][1] = "Validate"}

\* C10: Data returns the error of dispatch/decoding (ParseError, or the
\* matched parser's error) without calling the validator; only when decoding
\* succeeded is the validator called, once, after the parser, and its result
\* returned.
C10_FirstErrorOfTwoSteps ==
    status = "dataReturned" =>
        LET p == Parsers.items
            decoded == IF Hits(p, Request) = {} THEN "ParseError"
                       ELSE p[FirstHit(p, Request)].result
        IN  IF decoded # "nil"
            THEN dataRet = decoded /\ Validations = {}
            ELSE dataRet = Validator /\ Validations = {Len(calls)}

C10_Witness ==
    /\ status = "dataReturned"
    /\ Validator = "validateErr"
    /\ dataRet = "decodeErr"
    /\ Validations = {}

\* C11 as stated: once AddParser was called, before or after a Data, Data
\* dispatches on the added parsers followed by the engine's default parsers,
\* so a request only a default parser matches is still decoded by it.
C11_AddedAheadOfDefaults ==
    (status = "dataReturned" /\ added # <<>>) =>
        dataRet = DataOutcome(MkParsers(added \o engineParsers.items),
                              Request, Validator).ret

\* C12 as stated: whatever the spare capacity of the engine's default list,
\* the parser list of each concurrent request is the list that request built
\* by its own Data and AddParser calls, and the engine's list stays the
\* default list.
C12_AddParserIsPerRequest ==
        /\ \A r \in ShareReqs : SliceItems(heap, reqSlice[r]) = expect[r]
        /\ SliceItems(heap, engineSlice) = DefaultParsers.items

\* C13 as stated: within one request Query and Form each compute their value
\* at most once, and every call returns the value the first call returned,
\* whatever was done to the raw query or the form in between.
C13_SameValueEveryCall ==
    /\ computed.q <= 1
    /\ computed.f <= 1
    /\ ~first.q.nil => returned.q = first.q
    /\ ~first.f.nil => returned.f = first.f

\* C13 amended: each cache is computed at most once per request; Query always
\* returns what its first call returned; Form always returns the map that is
\* c.formCache, whose contents are those of the first call unless the map
\* Request.PostForm was changed in place, and then they are the changed ones.
C13_ComputedOnce ==
    /\ computed.q <= 1
    /\ computed.f <= 1
    /\ ~first.q.nil => (returned.q = first.q /\ queryCache = first.q)
    /\ ~first.f.nil =>
          /\ ~touched => (returned.f = first.f /\ formCache = first.f)
          /\ (touched /\ aliased) => formCache.kv = {Request.postForm} \ {""}
    /\ (status = "pooled") => (queryCache.nil /\ formCache.nil)

\* a call of each returned the cached value while the request held another
C13_Witness ==
    /\ stale.q
    /\ stale.f
    /\ computed = [q |-> 1, f |-> 1]

\* the handler on top of the stack has called Next() and the call has returned
BackFromNext ==
    /\ status = "running"
    /\ panicking = NoPanic
    /\ stack # <<>>
    /\ Top.k = "handler"
    /\ Top.n >= 1

\* C14: in a request without abort or panic, when the Next() a handler at
\* position k called has returned and the handler runs on, every handler at
\* k+1..N has been invoked and has returned (none is on the call stack), and no
\* handler is ever invoked twice, also after handler k returns to the loop.
C14_NextReturnsAfterTheRest ==
    (InRequest /\ Undisturbed) =>
        /\ BackFromNext =>
              /\ \A j \in (Top.h + 1)..Len(group) :
                     \E a \in 1..Len(invoked) : invoked[a] = group[j]
              /\ \A i \in 1..Len(stack) :
                     stack[i].k = "handler" => stack[i].h <= Top.h
        /\ \A a, b \in 1..Len(invoked) : invoked[a] = invoked[b] => a = b

\* handler 1 of three runs on after its Next(), handler 2 has called Next() too
C14_Witness ==
    /\ Undisturbed
    /\ BackFromNext
    /\ Top.h = 1
    /\ Len(group) = 3
    /\ nextCalls >= 2
    /\ invoked = <<1, 2, 3>>

\* C15: a Context on which a handler called Escape() is never in the engine's
\* pool afterwards, is never reset, so no later acquire yields it, and the map
\* it holds is never in syncMapPool.
C15_EscapedIsNeverPooled ==
    \A c \in Ctxs :
        escCalled[c] =>
            /\ c \notin ctxPool
            /\ pst[c] \in {"serving", "abandoned"}
            /\ pcv[c] # 0 => pcv[c] \notin mapPool

\* an escaped Context holding a map was left alone, both pools are drained and
\* another Context serves a request with a map of its own
C15_Witness ==
    \E c, d \in Ctxs :
        /\ escCalled[c]
        /\ pst[c] = "abandoned"
        /\ pcv[c] # 0
        /\ pst[d] = "serving"
        /\ pcv[d] # 0
        /\ ctxPool = {}
        /\ mapPool = {}

\* C20 as stated: in every state no map is the contextValue of two Contexts,
\* no map is both a Context's contextValue and in syncMapPool, every pooled map
\* is empty, a serving Context sees only keys of its own request in its map,
\* and the ContextValue calls of one request all return the same map.
C20_MapHeldByOne ==
    /\ \A c, d \in Ctxs : (c # d /\ pcv[c] # 0) => pcv[c] # pcv[d]
    /\ \A c \in Ctxs : pcv[c] # 0 => pcv[c] \notin mapPool
    /\ \A m \in mapPool : mapKeys[m] = {}
    /\ \A c \in Ctxs :
           (pst[c] = "serving" /\ pcv[c] # 0) => mapKeys[pcv[c]] \subseteq {c}
    /\ \A c \in Ctxs : cvFirst[c] # 0 => cvLast[c] = cvFirst[c]

\* the Contexts that are not inside reset between Put and the nil assignment
Settled == {c \in Ctxs : pst[c] # "put"}

\* C20 amended: the same, for every Context that is not inside reset between
\* syncMapPool.Put and the assignment of nil; a Context at that point still
\* refers to the map it has put back, which is in the pool or already the map
\* of another Context.
C20_MapHeldByOneSettled ==
    /\ \A c, d \in Settled : (c # d /\ pcv[c] # 0) => pcv[c] # pcv[d]
    /\ \A c \in Settled : pcv[c] # 0 => pcv[c] \notin mapPool
    /\ \A c \in Ctxs \ Settled :
           pcv[c] # 0 =>
               \/ pcv[c] \in mapPool
               \/ \E d \in Ctxs \ {c} : pcv[d] = pcv[c]
    /\ \A m \in mapPool : mapKeys[m] = {}
    /\ \A c \in Ctxs :
           (pst[c] = "serving" /\ pcv[c] # 0) => mapKeys[pcv[c]] \subseteq {c}
    /\ \A c \in Ctxs : cvFirst[c] # 0 => cvLast[c] = cvFirst[c]

\* a Context inside reset has put its map back and the request of another
\* Context already got that map from the pool, empty, and stored a key in it
C20_Witness ==
    \E c, d \in Ctxs :
        /\ pst[c] = "put"
        /\ pcv[c] # 0
        /\ pst[d] = "serving"
        /\ pcv[d] = pcv[c]
        /\ cvLast[d] = pcv[d]
        /\ mapKeys[pcv[d]] = {d}

\* the position of the parser whose Parse was called, 0 when none was
Selected ==
    LET parse == {i \in DOMAIN calls : calls[i][1] = "Parse"}
    IN  IF parse = {} THEN 0 ELSE calls[CHOOSE i \in parse : TRUE][2]

\* C16: with the built-in parsers in the order Form, JSON, Multipart, the
\* parser a dispatch selects is Form exactly for a header that lower-cased
\* is application/x-www-form-urlencoded, JSON exactly for one that lower-cased
\* is application/json, Multipart exactly for one that lower-cased has the
\* piece multipart/form-data, and for every other header (application/json
\* followed by a charset parameter, the empty header) no parser is selected
\* and the dispatch returns ParseError.
C16_DispatchOnLowerCasedHeader ==
    (status \in {"parsed", "dataReturned"} /\
     (status = "parsed" => ~Parsers.nil)) =>
        LET h == Request.contentType
            low == [i \in DOMAIN h |->
                       IF h[i] = "Application/X-WWW-Form-Urlencoded"
                       THEN "application/x-www-form-urlencoded"
                       ELSE IF h[i] = "APPLICATION/JSON" THEN "application/json"
                       ELSE IF h[i] = "Multipart/Form-Data"
                       THEN "multipart/form-data"
                       ELSE h[i]]
            multi == \E i \in DOMAIN low : low[i] = "multipart/form-data"
        IN  /\ Selected = 1 <=> low = <<"application/x-www-form-urlencoded">>
            /\ Selected = 2 <=> low = <<"application/json">>
            /\ Selected = 3 <=> multi
            /\ Selected = 0 <=> dataRet = "ParseError"
            /\ low \in {<<>>, <<"application/json", "; charset=utf-8">>,
                        <<"text/plain">>} => dataRet = "ParseError"

\* an upper-case JSON header was dispatched to the JSON parser
C16_Witness ==
    /\ status = "parsed"
    /\ Request.contentType = <<"APPLICATION/JSON">>
    /\ Selected = 2
    /\ dataRet = "nil"

\* C17 as stated: SaveUploadFileWith(fs, name) with a non-nil fs and a readable
\* upload calls Save once, on fs, whatever c.FileStorage is (nil or another
\* storage), and with a nil fs it returns an error and calls no Save.
C17_SavesThroughGivenStorage ==
    (saveRet # "none") =>
        /\ (fsArg # 0 /\ upload = "ok") =>
               (saves = <<fsArg>> /\ saveRet = "saved")
        /\ fsArg = 0 => (saves = <<>> /\ saveRet = "error")

\* C18 as stated: in every state of a request in which IsAborted() is true the
\* abort position is below the length of the current chain, so AbortHandler()
\* does not index out of range.
C18_AbortPositionInRange ==
    (InRequest /\ IsAborted) =>
        /\ abortIndex < Len(group)
        /\ AbortHandler # -1

\* C19 as stated: for every chain length, 255, 256 and more among them, a
\* request whose handlers only return never reads the chain outside its
\* range, never invokes more handlers than the chain has, and when start()
\* has ended it ended normally with every handler invoked once, in order.
C19_CursorNeverWraps ==
    InRequest =>
        /\ ~faulted
        /\ Len(invoked) <= Len(group)
        /\ Ended => (status = "done" /\ invoked = group)

====
